---- MODULE Spec2Model ----
(***************************************************************************)
(* Model of the Twilio <-> OpenAI Realtime bridge of src/server.js (the    *)
(* last program text of the file, lines 302-561): one caller connection    *)
(* (twilioWS), the agent sockets its start events open, the pacer timer,   *)
(* the turn state and the sample accumulator.                              *)
(*                                                                         *)
(* Node runs every handler to completion; the only suspension point is     *)
(* `await connectOpenAI()` in the start branch.  One action of the model   *)
(* is one handler invocation.  The resumption of the start branch runs as  *)
(* a microtask right after ws.on("open"), so both form one action.         *)
(*                                                                         *)
(* Environment: the caller sends well-formed start, media and stop events  *)
(* or malformed text, and nothing after its stop; either peer may close    *)
(* its socket at any time; the agent sends any message while its socket    *)
(* is open.  A send on a socket that is not open delivers nothing.         *)
(***************************************************************************)
EXTENDS Integers, Naturals, Sequences, FiniteSets, TLC

(* ------------------------------ bounds --------------------------------- *)
MaxStarts == 1      \* start events (agent channels created) per connection
MaxFrames == 2      \* caller media frames received per connection
MaxDeltas == 2      \* agent messages that enqueue a chunk
StartNow == 1000    \* Date.now() when the caller connects (far above 250)

(* ------------------------- program constants --------------------------- *)
MIN_SAMPLES_100MS == 1600
DEBOUNCE_MS == 250

(* ------------------------------ inputs --------------------------------- *)
NULL == "null"
NOCHAN == 0
IDLE == [kind |-> "idle", stage |-> "idle", in |-> 0, mid |-> 0, out |-> 0]
Sids == {"S1"}
FrameLens == {160, 800}                \* bytes of mu-law in a media payload
ClockGaps == {DEBOUNCE_MS, DEBOUNCE_MS + 1}   \* ms since the last cancellation
DeltaTypes == {"response.output_audio.delta", "output_audio_buffer.delta"}
AgentTypes == {"response.created", "response.done", "error", "other"}
                 \cup DeltaTypes
\* parsed agent messages: the type, and whether m.audio / m.delta are non-empty
AgentMsgs ==
  [type : DeltaTypes, audio : BOOLEAN, delta : BOOLEAN]
    \cup [type : AgentTypes \ DeltaTypes, audio : {FALSE}, delta : {FALSE}]
\* the agent sockets a connection may create: one per start event, and the
\* one of a start event repeated on the same connection
Chans == 1..(MaxStarts + 1)

VARIABLES
  twilio,            \* readyState of twilioWS: "open", "closing", "closed"
  streamSid,         \* let streamSid
  oaiWS,             \* let oaiWS: NOCHAN (null) or a channel
  chans,             \* agent sockets created so far: channel -> readyState
  ttsQueue,          \* const ttsQueue: sequence of chunk numbers
  timerActive,       \* ttsTimer is scheduled
  clearCount,        \* number of clearInterval(ttsTimer) calls
  responseActive,    \* let responseActive
  lastCancelTs,      \* let lastCancelTs
  pendingSamples16k, \* let pendingSamples16k
  oaiLog,            \* every oaiWS.send / ws.send call, in order
  played,            \* chunks sent to the caller as playback frames
  nFrames,           \* media frames received so far
  nDeltas,           \* chunks enqueued so far
  stopSeen,          \* a stop event has been handled
  doneSeen,          \* a response.done event has been handled
  codec              \* the conversion under test (idle in a session)

vars == <<twilio, streamSid, oaiWS, chans, ttsQueue, timerActive, clearCount,
          responseActive, lastCancelTs, pendingSamples16k, oaiLog,
          played, nFrames, nDeltas, stopSeen, doneSeen, codec>>

(* ------------------------------ helpers -------------------------------- *)
\* one send on an agent socket: the socket, the message type, the media frame
\* whose handler sent it (0: the start branch), the samples an append carries
\* and, for a cancel, Date.now() when it was sent
Msg(c, t, f, n, at) ==
  [ch |-> c, type |-> t, frame |-> f, samples |-> n, at |-> at]

\* the channels that exist
Created == DOMAIN chans

\* twilioWS.close(): an OPEN socket starts its closing handshake and emits
\* "close" when that ends; on a closing or closed socket it does nothing
wsClose(st) == IF st = "open" THEN "closing" ELSE st

\* `oaiWS && oaiWS.close()`: the agent socket is taken to be closed as soon as
\* close() is called (its "close" handler only logs)
closeOai(cs, h) == IF h = NOCHAN THEN cs ELSE [cs EXCEPT ![h] = "closed"]

\* pcm8kTo16k: new Int16Array(x8.length * 2)
pcm8kTo16kLen(n) == n * 2

\* (the debounce test written with >=)
bargeInFiresAtWindow(t) == /\ oaiWS # NOCHAN
                           /\ responseActive
                           /\ t - lastCancelTs >= DEBOUNCE_MS

\* bargeIn(): the condition of its if
bargeInFires(t) == /\ oaiWS # NOCHAN
                   /\ responseActive
                   /\ t - lastCancelTs > DEBOUNCE_MS

\* (the threshold test written with >)
CommitDueStrict(p) == p > MIN_SAMPLES_100MS

\* `pendingSamples16k >= MIN_SAMPLES_100MS`
CommitDue(p) == p >= MIN_SAMPLES_100MS

(* -------------------------------- Init --------------------------------- *)
Init ==
  /\ twilio = "open"
  /\ streamSid = NULL
  /\ oaiWS = NOCHAN
  /\ chans = <<>>
  /\ ttsQueue = <<>>
  /\ timerActive = TRUE
  /\ clearCount = 0
  /\ responseActive = FALSE
  /\ lastCancelTs = 0
  /\ pendingSamples16k = 0
  /\ oaiLog = <<>>
  /\ played = <<>>
  /\ nFrames = 0
  /\ nDeltas = 0
  /\ stopSeen = FALSE
  /\ doneSeen = FALSE
  /\ codec = IDLE

\* the caller sends messages until its stop event, the last one of a stream
TwilioReceiving == twilio = "open"

(* --------------------------- caller handlers --------------------------- *)
\* (a malformed caller message treated as fatal: the socket is closed)
TwilioBadJsonCloses ==
  /\ TwilioReceiving
  /\ twilio' = wsClose(twilio)
  /\ UNCHANGED <<streamSid, oaiWS, chans, ttsQueue, timerActive,
                 clearCount, responseActive, lastCancelTs, pendingSamples16k, oaiLog,
                 played, nFrames, nDeltas, stopSeen, doneSeen, codec>>

\* twilioWS.on("message") with a payload JSON.parse rejects
TwilioBadJson ==
  /\ TwilioReceiving
  /\ UNCHANGED <<twilio, streamSid, oaiWS, chans, ttsQueue, timerActive,
                 clearCount, responseActive, lastCancelTs, pendingSamples16k, oaiLog,
                 played, nFrames, nDeltas, stopSeen,
                 doneSeen, codec>>

\* start branch up to `await connectOpenAI()`: new WebSocket(url)
TwilioStart(sid) ==
  /\ TwilioReceiving
  /\ Len(chans) < MaxStarts
  /\ streamSid' = sid
  /\ chans' = Append(chans, "connecting")
  /\ UNCHANGED <<twilio, oaiWS, ttsQueue, timerActive, clearCount,
                 responseActive, lastCancelTs, pendingSamples16k, oaiLog,
                 played, nFrames, nDeltas, stopSeen,
                 doneSeen, codec>>

\* the start branch run for one more start event on a connection that has
\* handled its starts: nothing in the branch tells a repeated start from a
\* first one
TwilioRestart(sid) ==
  /\ TwilioReceiving
  /\ Len(chans) = MaxStarts
  /\ streamSid' = sid
  /\ chans' = Append(chans, "connecting")
  /\ UNCHANGED <<twilio, oaiWS, ttsQueue, timerActive, clearCount,
                 responseActive, lastCancelTs, pendingSamples16k, oaiLog,
                 played, nFrames, nDeltas, stopSeen, doneSeen, codec>>

\* Date.now() in bargeIn, the only place that reads the clock and compares it
\* with lastCancelTs only: the reading is given by its distance g from the last
\* cancellation (from the connection's start when there was none)
DateNow(g) == IF lastCancelTs = 0 THEN StartNow + g ELSE lastCancelTs + g

\* (the reset moved out of bargeIn's if)
AfterBargeInAlways(fire) == FALSE

\* bargeIn(): responseActive when it returns, fire being the value of its if
AfterBargeIn(fire) == IF fire THEN FALSE ELSE responseActive

\* `if (!responseActive)` inside the commit
CreateDue(commit, ra) == commit /\ ~ra

\* (the handler returning after a cancellation, before the append)
MediaSendsCancelOnly(c, f, fire, t, n16, commit, create) ==
  IF fire THEN <<Msg(c, "response.cancel", f, 0, t)>>
  ELSE    <<Msg(c, "input_audio_buffer.append", f, n16, 0)>>
       \o (IF commit THEN <<Msg(c, "input_audio_buffer.commit", f, 0, 0)>>
                     ELSE <<>>)
       \o (IF create THEN <<Msg(c, "response.create", f, 0, 0)>> ELSE <<>>)

\* (bargeIn called after the audio was appended)
MediaSendsCancelAfter(c, f, fire, t, n16, commit, create) ==
     <<Msg(c, "input_audio_buffer.append", f, n16, 0)>>
  \o (IF fire THEN <<Msg(c, "response.cancel", f, 0, t)>> ELSE <<>>)
  \o (IF commit THEN <<Msg(c, "input_audio_buffer.commit", f, 0, 0)>> ELSE <<>>)
  \o (IF create THEN <<Msg(c, "response.create", f, 0, 0)>> ELSE <<>>)

\* the sends of one media handler on socket c, in program order: bargeIn's
\* cancel, the append, the commit and the gated create
MediaSends(c, f, fire, t, n16, commit, create) ==
     (IF fire THEN <<Msg(c, "response.cancel", f, 0, t)>> ELSE <<>>)
  \o <<Msg(c, "input_audio_buffer.append", f, n16, 0)>>
  \o (IF commit THEN <<Msg(c, "input_audio_buffer.commit", f, 0, 0)>> ELSE <<>>)
  \o (IF create THEN <<Msg(c, "response.create", f, 0, 0)>> ELSE <<>>)

\* (the accumulator counting a frame that arrives while oaiWS is null)
TwilioMediaCountsDropped(len, g) ==
  /\ TwilioReceiving
  /\ nFrames < MaxFrames
  /\ nFrames' = nFrames + 1
  /\ IF oaiWS = NOCHAN
       THEN /\ pendingSamples16k' = pendingSamples16k + pcm8kTo16kLen(len)
            /\ UNCHANGED <<responseActive, lastCancelTs, oaiLog>>
       ELSE LET f      == nFrames + 1
                t      == DateNow(g)
                fire   == bargeInFires(t)
                ra1    == AfterBargeIn(fire)
                n16    == pcm8kTo16kLen(len)
                pend1  == pendingSamples16k + n16
                commit == CommitDue(pend1)
                create == CreateDue(commit, ra1)
            IN /\ lastCancelTs' = IF fire THEN t ELSE lastCancelTs
               /\ pendingSamples16k' = IF commit THEN 0 ELSE pend1
               /\ responseActive' = IF create THEN TRUE ELSE ra1
               /\ oaiLog' = oaiLog
                     \o MediaSends(oaiWS, f, fire, t, n16, commit, create)
  /\ UNCHANGED <<twilio, streamSid, oaiWS, chans, ttsQueue, timerActive,
                 clearCount, played, nDeltas, stopSeen,
                 doneSeen, codec>>

\* (bargeIn also emptying ttsQueue)
TwilioMediaFlushes(len, g) ==
  /\ TwilioReceiving
  /\ nFrames < MaxFrames
  /\ nFrames' = nFrames + 1
  /\ IF oaiWS = NOCHAN
       THEN UNCHANGED <<responseActive, lastCancelTs, pendingSamples16k,
                        oaiLog, ttsQueue>>
       ELSE LET f      == nFrames + 1
                t      == DateNow(g)
                fire   == bargeInFires(t)
                ra1    == AfterBargeIn(fire)
                n16    == pcm8kTo16kLen(len)
                pend1  == pendingSamples16k + n16
                commit == CommitDue(pend1)
                create == CreateDue(commit, ra1)
            IN /\ lastCancelTs' = IF fire THEN t ELSE lastCancelTs
               /\ ttsQueue' = IF fire THEN <<>> ELSE ttsQueue
               /\ pendingSamples16k' = IF commit THEN 0 ELSE pend1
               /\ responseActive' = IF create THEN TRUE ELSE ra1
               /\ oaiLog' = oaiLog
                     \o MediaSends(oaiWS, f, fire, t, n16, commit, create)
  /\ UNCHANGED <<twilio, streamSid, oaiWS, chans, timerActive,
                 clearCount, played, nDeltas, stopSeen,
                 doneSeen, codec>>

\* media branch: `if (msg.event === "media" && oaiWS)`
TwilioMedia(len, g) ==
  /\ TwilioReceiving
  /\ nFrames < MaxFrames
  /\ nFrames' = nFrames + 1
  /\ IF oaiWS = NOCHAN
       THEN UNCHANGED <<responseActive, lastCancelTs, pendingSamples16k,
                        oaiLog>>
       ELSE LET f      == nFrames + 1
                t      == DateNow(g)
                fire   == bargeInFires(t)
                ra1    == AfterBargeIn(fire)
                n16    == pcm8kTo16kLen(len)
                pend1  == pendingSamples16k + n16
                commit == CommitDue(pend1)
                create == CreateDue(commit, ra1)
            IN /\ lastCancelTs' = IF fire THEN t ELSE lastCancelTs
               /\ pendingSamples16k' = IF commit THEN 0 ELSE pend1
               /\ responseActive' = IF create THEN TRUE ELSE ra1
               /\ oaiLog' = oaiLog
                     \o MediaSends(oaiWS, f, fire, t, n16, commit, create)
  /\ UNCHANGED <<twilio, streamSid, oaiWS, chans, ttsQueue, timerActive,
                 clearCount, played, nDeltas, stopSeen,
                 doneSeen, codec>>

\* stop branch: oaiWS && oaiWS.close(); twilioWS.close()
TwilioStop ==
  /\ TwilioReceiving
  /\ chans' = closeOai(chans, oaiWS)
  /\ twilio' = wsClose(twilio)
  /\ stopSeen' = TRUE
  /\ UNCHANGED <<streamSid, oaiWS, ttsQueue, timerActive, clearCount,
                 responseActive, lastCancelTs, pendingSamples16k, oaiLog,
                 played, nFrames, nDeltas, doneSeen, codec>>

\* (a close handler without clearInterval)
TwilioCloseKeepsTimer ==
  /\ twilio # "closed"
  /\ twilio' = "closed"
  /\ chans' = closeOai(chans, oaiWS)
  /\ UNCHANGED <<streamSid, oaiWS, ttsQueue, timerActive, clearCount,
                 responseActive, lastCancelTs, pendingSamples16k, oaiLog,
                 played, nFrames, nDeltas, stopSeen,
                 doneSeen, codec>>

\* twilioWS.on("close"): the socket reached CLOSED, after a local close() or
\* because the peer went away
TwilioClose ==
  /\ twilio # "closed"
  /\ twilio' = "closed"
  /\ timerActive' = FALSE
  /\ clearCount' = clearCount + 1
  /\ chans' = closeOai(chans, oaiWS)
  /\ UNCHANGED <<streamSid, oaiWS, ttsQueue, responseActive, lastCancelTs,
                 pendingSamples16k, oaiLog, played, nFrames,
                 nDeltas, stopSeen,
                 doneSeen, codec>>

(* ------------------------------ the pacer ------------------------------ *)
\* (pop() in place of shift(): the newest chunk)
TakeNewest(q) == [chunk |-> q[Len(q)], rest |-> SubSeq(q, 1, Len(q) - 1)]

\* (the oldest chunk read but left in the queue)
TakePeek(q) == [chunk |-> Head(q), rest |-> q]

\* ttsQueue.shift(): the oldest chunk and the queue without it
TakeOldest(q) == [chunk |-> Head(q), rest |-> Tail(q)]

\* ttsTimer callback; twilioWS.send on a socket that is not OPEN delivers
\* nothing (and what it throws is swallowed)
PacerTick ==
  /\ timerActive
  /\ IF streamSid = NULL \/ Len(ttsQueue) = 0
       THEN UNCHANGED <<ttsQueue, played>>
       ELSE LET take == TakeOldest(ttsQueue)
            IN /\ ttsQueue' = take.rest
               /\ played' = IF twilio = "open" THEN Append(played, take.chunk)
                                               ELSE played
  /\ UNCHANGED <<twilio, streamSid, oaiWS, chans, timerActive, clearCount,
                 responseActive, lastCancelTs, pendingSamples16k, oaiLog,
                 nFrames, nDeltas, stopSeen,
                 doneSeen, codec>>

(* ---------------------------- agent channel ---------------------------- *)
\* (the greeting sent ahead of the configuration)
OpenSendsGreetingFirst(c) == <<Msg(c, "response.create", 0, 0, 0),
                               Msg(c, "session.update", 0, 0, 0)>>

\* the sends on a socket that opened: session.update by ws.on("open"), then
\* the greeting response.create by the start branch
OpenSends(c) == <<Msg(c, "session.update", 0, 0, 0),
                  Msg(c, "response.create", 0, 0, 0)>>

\* ws.on("open") of connectOpenAI followed, in the same turn of the event
\* loop, by the continuation of the start branch after the await
AgentOpen(c) ==
  /\ c \in Created
  /\ chans[c] = "connecting"
  /\ chans' = [chans EXCEPT ![c] = "open"]
  /\ oaiWS' = c
  /\ oaiLog' = oaiLog \o OpenSends(c)
  /\ UNCHANGED <<twilio, streamSid, ttsQueue, timerActive, clearCount,
                 responseActive, lastCancelTs, pendingSamples16k, played,
                 nFrames, nDeltas, stopSeen,
                 doneSeen, codec>>

\* ws.on("error") before the socket opened: reject(e), the start branch
\* returns from its catch
AgentFail(c) ==
  /\ c \in Created
  /\ chans[c] = "connecting"
  /\ chans' = [chans EXCEPT ![c] = "closed"]
  /\ UNCHANGED <<twilio, streamSid, oaiWS, ttsQueue, timerActive, clearCount,
                 responseActive, lastCancelTs, pendingSamples16k, oaiLog,
                 played, nFrames, nDeltas, stopSeen,
                 doneSeen, codec>>

\* ws.on("close") of connectOpenAI: logs only
AgentClose(c) ==
  /\ c \in Created
  /\ chans[c] = "open"
  /\ chans' = [chans EXCEPT ![c] = "closed"]
  /\ UNCHANGED <<twilio, streamSid, oaiWS, ttsQueue, timerActive, clearCount,
                 responseActive, lastCancelTs, pendingSamples16k, oaiLog,
                 played, nFrames, nDeltas, stopSeen,
                 doneSeen, codec>>

\* (either payload field accepted for either variant)
EnqueuesEitherField(m) == m.type \in DeltaTypes /\ (m.audio \/ m.delta)

\* the two `if`s that push on ttsQueue
Enqueues(m) ==
  \/ m.type = "response.output_audio.delta" /\ m.audio
  \/ m.type = "output_audio_buffer.delta" /\ m.delta

\* `if (m.type === "response.created") responseActive = true;` and
\* `if (m.type === "response.done") responseActive = false;`
ResponseAfter(m) == IF m.type = "response.done" THEN FALSE
                    ELSE IF m.type = "response.created" THEN TRUE
                    ELSE responseActive

\* oaiWS.on("message") registered by the start branch on channel c
AgentMessage(c, m) ==
  /\ c \in Created
  /\ chans[c] = "open"
  /\ Enqueues(m) => nDeltas < MaxDeltas
  /\ responseActive' = ResponseAfter(m)
  /\ IF Enqueues(m)
       THEN /\ nDeltas' = nDeltas + 1
            /\ ttsQueue' = Append(ttsQueue, nDeltas + 1)
       ELSE UNCHANGED <<nDeltas, ttsQueue>>
  /\ doneSeen' = (doneSeen \/ m.type = "response.done")
  /\ UNCHANGED <<twilio, streamSid, oaiWS, chans, timerActive, clearCount,
                 lastCancelTs, pendingSamples16k, oaiLog,
                 played, nFrames, stopSeen, codec>>

\* oaiWS.on("message") with a payload JSON.parse rejects
AgentBadJson(c) ==
  /\ c \in Created
  /\ chans[c] = "open"
  /\ UNCHANGED <<twilio, streamSid, oaiWS, chans, ttsQueue, timerActive,
                 clearCount, responseActive, lastCancelTs, pendingSamples16k, oaiLog,
                 played, nFrames, nDeltas, stopSeen,
                 doneSeen, codec>>

(* ---------------------------- specification ---------------------------- *)
Next ==
  \/ TwilioBadJson
  \/ \E sid \in Sids : TwilioStart(sid)
  \/ \E len \in FrameLens, g \in ClockGaps : TwilioMedia(len, g)
  \/ TwilioStop
  \/ TwilioClose
  \/ PacerTick
  \/ \E c \in Chans : AgentOpen(c)
  \/ \E c \in Chans : AgentFail(c)
  \/ \E c \in Chans : AgentClose(c)
  \/ \E c \in Chans, m \in AgentMsgs : AgentMessage(c, m)
  \/ \E c \in Chans : AgentBadJson(c)

Spec == Init /\ [][Next]_vars

\* a caller that repeats its start event
NextRestart ==
  \/ Next
  \/ \E sid \in Sids : TwilioRestart(sid)

SpecRestart == Init /\ [][NextRestart]_vars

(* ------------------------------ the codec ------------------------------ *)
\* bounds of the inputs of the conversions
MaxLen == 4

\* `const B = 132` and the clip of pcm16ToUlaw
B == 132
CLIP == 32635

\* the values a companded byte takes, the samples pcm16ToUlaw does not clip,
\* and Int16Array elements at both ends and around zero
Bytes == 0..255
Samples == (0 - CLIP)..CLIP
SampleVals == {-32768, -1, 0, 1, 32767}

\* ulawToPcm16(u); ~u & 255 is 255 - u on a byte, u & 128 its top bit,
\* v << e is v * 2^e (no 32-bit overflow: at most 252 * 128)
ulawToPcm16(u0) ==
  LET u == 255 - u0
      s == IF (u \div 128) % 2 = 1 THEN -1 ELSE 1
      e == (u \div 16) % 8
      m == u % 16
      x == ((m * 8 + B) * 2^e) - (B * 2^e)
  IN s * x

\* pcm16ToUlaw(p); x & (8064 << (i - 1)) tests the six bits i+6 .. i+11 of x,
\* the loop keeps the largest i in 7..1 whose test succeeds; s, e << 4 and m
\* occupy disjoint bits
pcm16ToUlaw(p) ==
  LET s    == IF p < 0 THEN 128 ELSE 0
      a    == IF p < 0 THEN 0 - p ELSE p
      x    == (IF a > CLIP THEN CLIP ELSE a) + B
      hits == {i \in 1..7 : (x \div 2^(i + 6)) % 64 # 0}
      e    == IF hits = {} THEN 7
              ELSE CHOOSE i \in hits : \A j \in hits : j <= i
      m    == (x \div 2^(e + 3)) % 16
  IN 255 - (s + e * 16 + m)

\* pcm8kTo16k(x8): each sample followed by its mean with the next one,
\* (a + b) >> 1 rounding down; the last sample is written twice
pcm8kTo16k(x8) ==
  LET n == Len(x8)
  IN [k \in 1..(2 * n) |->
        LET i == (k - 1) \div 2
        IN IF i < n - 1
             THEN IF (k - 1) % 2 = 0 THEN x8[i + 1]
                  ELSE (x8[i + 1] + x8[i + 2]) \div 2
             ELSE x8[n]]

\* (the downsampler keeping the odd-indexed samples)
pcm16kTo8kOdd(x16) == [j \in 1..(Len(x16) \div 2) |-> x16[2 * j]]

\* pcm16kTo8k(x16): y[j] = x16[2j] for j below floor(length / 2)
pcm16kTo8k(x16) == [j \in 1..(Len(x16) \div 2) |-> x16[2 * j - 1]]

\* the sample sequences of length 1 .. MaxLen
Frames == UNION {[1..n -> SampleVals] : n \in 1..MaxLen}

\* a conversion about to run on input x
Input(k, x) == [kind |-> k, stage |-> "input", in |-> x, mid |-> 0, out |-> 0]

\* the variables of a session
sessionVars == <<twilio, streamSid, oaiWS, chans, ttsQueue, timerActive,
                 clearCount, responseActive, lastCancelTs, pendingSamples16k,
                 oaiLog, played, nFrames, nDeltas, stopSeen, doneSeen>>

\* no session: one value is handed to the helpers
InitCodec ==
  /\ twilio = "open"
  /\ streamSid = NULL
  /\ oaiWS = NOCHAN
  /\ chans = <<>>
  /\ ttsQueue = <<>>
  /\ timerActive = TRUE
  /\ clearCount = 0
  /\ responseActive = FALSE
  /\ lastCancelTs = 0
  /\ pendingSamples16k = 0
  /\ oaiLog = <<>>
  /\ played = <<>>
  /\ nFrames = 0
  /\ nDeltas = 0
  /\ stopSeen = FALSE
  /\ doneSeen = FALSE
  /\ codec \in {Input("byte", b) : b \in Bytes}
          \cup {Input("sample", x) : x \in Samples}
          \cup {Input("frame", f) : f \in Frames}

\* pcm16ToUlaw(ulawToPcm16(b)): the inner call, then the outer one
DecodeByte ==
  /\ codec.kind = "byte" /\ codec.stage = "input"
  /\ codec' = [codec EXCEPT !.stage = "half", !.mid = ulawToPcm16(codec.in)]
  /\ UNCHANGED sessionVars

EncodeDecoded ==
  /\ codec.kind = "byte" /\ codec.stage = "half"
  /\ codec' = [codec EXCEPT !.stage = "done", !.out = pcm16ToUlaw(codec.mid)]
  /\ UNCHANGED sessionVars

\* ulawToPcm16(pcm16ToUlaw(x)): the inner call, then the outer one
EncodeSample ==
  /\ codec.kind = "sample" /\ codec.stage = "input"
  /\ codec' = [codec EXCEPT !.stage = "half", !.mid = pcm16ToUlaw(codec.in)]
  /\ UNCHANGED sessionVars

DecodeEncoded ==
  /\ codec.kind = "sample" /\ codec.stage = "half"
  /\ codec' = [codec EXCEPT !.stage = "done", !.out = ulawToPcm16(codec.mid)]
  /\ UNCHANGED sessionVars

\* pcm16kTo8k(pcm8kTo16k(s)): the inner call, then the outer one
Upsample ==
  /\ codec.kind = "frame" /\ codec.stage = "input"
  /\ codec' = [codec EXCEPT !.stage = "half", !.mid = pcm8kTo16k(codec.in)]
  /\ UNCHANGED sessionVars

Downsample ==
  /\ codec.kind = "frame" /\ codec.stage = "half"
  /\ codec' = [codec EXCEPT !.stage = "done", !.out = pcm16kTo8k(codec.mid)]
  /\ UNCHANGED sessionVars

NextCodec ==
  \/ DecodeByte
  \/ EncodeDecoded
  \/ EncodeSample
  \/ DecodeEncoded
  \/ Upsample
  \/ Downsample

SpecCodec == InitCodec /\ [][NextCodec]_vars

(* ------------------------- reading the send log ------------------------ *)
\* the messages of type t in a log, and the log of one socket
OfType(log, t) == SelectSeq(log, LAMBDA r : r.type = t)
OnChan(log, c) == SelectSeq(log, LAMBDA r : r.ch = c)

\* the messages sent by the step under consideration
NewSends == SubSeq(oaiLog', Len(oaiLog) + 1, Len(oaiLog'))
SendsNow(t) == Len(OfType(NewSends, t))

\* the step is the media handler, the handler of agent message type t
MediaStep == \E len \in FrameLens, g \in ClockGaps : TwilioMedia(len, g)
AgentStep(t) == \E c \in Chans, m \in AgentMsgs : m.type = t /\ AgentMessage(c, m)

\* no handshake is pending
NoneConnecting == \A c \in Created : chans[c] # "connecting"

(* -------------------------------- C1 ----------------------------------- *)
\* C1: once a stop event has been handled, the caller socket is closed and
\* every pending handshake has ended, no agent socket of the session is open.
\* The code closes only the socket oaiWS holds when stop (or close) runs; a
\* handshake that completes afterwards leaves its socket open.
C1_StopClosesAgent ==
  (stopSeen /\ twilio = "closed" /\ NoneConnecting)
    => \A c \in Created : chans[c] # "open"

(* -------------------------------- C2 ----------------------------------- *)
\* C2 as claimed: responseActive becomes true only in the handler of
\* response.created and becomes false only in the handler of response.done.
C2_OnlyAgentEvents ==
  [][ /\ (~responseActive /\ responseActive') => AgentStep("response.created")
      /\ (responseActive /\ ~responseActive') => AgentStep("response.done")
    ]_vars

\* C2 amended: responseActive becomes true only in the handler of
\* response.created or in a media handler that sends response.create, and
\* becomes false only in the handler of response.done or in a media handler
\* that sends response.cancel; no other step changes it.
C2_Amended ==
  [][ /\ (~responseActive /\ responseActive')
           => \/ AgentStep("response.created")
              \/ MediaStep /\ SendsNow("response.create") = 1
      /\ (responseActive /\ ~responseActive')
           => \/ AgentStep("response.done")
              \/ MediaStep /\ SendsNow("response.cancel") = 1
    ]_vars

\* a media handler has cancelled, and one has requested a response on its own
C2_Witness ==
  /\ Len(OfType(oaiLog, "response.cancel")) > 0
  /\ \E i \in 1..Len(oaiLog) :
        oaiLog[i].type = "response.create" /\ oaiLog[i].frame > 0
  /\ ~responseActive
(* -------------------------------- C3 ----------------------------------- *)
\* the samples appended since the last commit, read off the send log
RECURSIVE AppendedSinceCommit(_)
AppendedSinceCommit(log) ==
  IF log = <<>> THEN 0
  ELSE LET r == log[Len(log)]
       IN IF r.type = "input_audio_buffer.commit" THEN 0
          ELSE r.samples + AppendedSinceCommit(SubSeq(log, 1, Len(log) - 1))

\* C3: a media handler that runs with the agent channel set sends a commit
\* exactly when the samples appended since the previous commit, its own
\* included, have reached 1600, and never more than one; after a commit
\* pendingSamples16k is 0, at the end of every media handler it is below 1600
\* and equals the samples appended since the last commit; no other handler
\* sends a commit.
C3_CommitAtThreshold ==
  [][ /\ (MediaStep /\ oaiWS # NOCHAN) =>
            LET appended == AppendedSinceCommit(oaiLog)
                              + AppendedSinceCommit(
                                  OfType(NewSends, "input_audio_buffer.append"))
            IN /\ SendsNow("input_audio_buffer.commit")
                    = (IF appended >= MIN_SAMPLES_100MS THEN 1 ELSE 0)
               /\ SendsNow("input_audio_buffer.commit") = 1
                    => pendingSamples16k' = 0
               /\ pendingSamples16k' < MIN_SAMPLES_100MS
               /\ pendingSamples16k' = AppendedSinceCommit(oaiLog')
      /\ SendsNow("input_audio_buffer.commit") > 0 => MediaStep
    ]_vars

\* the second frame crossed the threshold the first one had not reached
C3_Witness ==
  /\ pendingSamples16k = 0
  /\ Len(OfType(oaiLog, "input_audio_buffer.commit")) = 1
  /\ OfType(oaiLog, "input_audio_buffer.commit")[1].frame = 2
  /\ Len(OfType(oaiLog, "input_audio_buffer.append")) = 2
(* -------------------------------- C4 ----------------------------------- *)
\* C4: any two response.cancel messages of the session were sent more than
\* 250 ms apart.
C4_CancelsDebounced ==
  LET cancels == OfType(oaiLog, "response.cancel")
  IN \A i, j \in 1..Len(cancels) :
        i < j => cancels[j].at - cancels[i].at > DEBOUNCE_MS

\* two cancellations were sent
C4_Witness == Len(OfType(oaiLog, "response.cancel")) = 2

(* -------------------------------- C5 ----------------------------------- *)
\* what was played followed by what is queued is every chunk enqueued so far,
\* in enqueue order
InEnqueueOrder == played \o ttsQueue = [i \in 1..nDeltas |-> i]

\* C5: with a known stream identifier and the caller socket open, a pacer
\* tick on a non-empty queue removes exactly its oldest chunk and sends
\* exactly that chunk as one playback frame; while the caller socket is open
\* the frames sent followed by the chunks queued are all chunks in enqueue
\* order, so N ticks send N queued chunks in order and leave the queue empty.
C5_PacerDrainsInOrder ==
  [][ /\ (PacerTick /\ streamSid # NULL /\ twilio = "open" /\ ttsQueue # <<>>)
           => /\ ttsQueue' = Tail(ttsQueue)
              /\ played' = Append(played, Head(ttsQueue))
      /\ (twilio = "open" => InEnqueueOrder)'
    ]_vars

\* a burst of two chunks was played out and the queue is empty
C5_Witness ==
  twilio = "open" /\ nDeltas = 2 /\ played = <<1, 2>> /\ ttsQueue = <<>>

(* -------------------------------- C6 ----------------------------------- *)
\* C6: the handler of a close event, of the caller socket or of an agent
\* socket, tears the session down: afterwards the pacer timer is cancelled,
\* the caller socket is no longer open and no agent socket is open; the
\* handler of a stop leaves neither socket open (the timer is cancelled by
\* the close event that follows).  The agent socket's close handler only
\* logs.
C6_CloseTearsDown ==
  [][ /\ (TwilioClose \/ \E c \in Chans : AgentClose(c))
           => /\ ~timerActive'
              /\ twilio' # "open"
              /\ \A c \in DOMAIN chans' : chans'[c] # "open"
      /\ TwilioStop
           => /\ twilio' # "open"
              /\ \A c \in DOMAIN chans' : chans'[c] # "open"
    ]_vars

C8_ConfigFirst ==
  \A c \in Created :
     LET sent == OnChan(oaiLog, c)
     IN /\ chans[c] = "connecting" => sent = <<>>
        /\ sent # <<>> => sent[1].type = "session.update"

\* audio was appended on a socket
C8_Witness ==
  \E c \in Created :
     Len(OfType(OnChan(oaiLog, c), "input_audio_buffer.append")) > 0

(* -------------------------------- C9 ----------------------------------- *)
\* C9: the playback frames sent to the caller never outnumber the audio
\* deltas received; none is sent before the first delta.
C9_PlaybackWithinDeltas == Len(played) <= nDeltas

\* caller frames were received and every delta received has been played
C9_Witness == nFrames > 0 /\ nDeltas > 0 /\ Len(played) = nDeltas

(* -------------------------------- C10 ---------------------------------- *)
\* the media frames of the append messages in a log, in sending order
AppendFrames(log) ==
  LET a == OfType(log, "input_audio_buffer.append")
  IN [i \in 1..Len(a) |-> a[i].frame]

\* C10: a media handler that runs with the agent channel set sends exactly
\* one append, carrying that frame; no other handler sends an append; the
\* appends sent so far are in frame arrival order.
C10_AppendsInArrivalOrder ==
  [][ /\ (MediaStep /\ oaiWS # NOCHAN)
           => AppendFrames(NewSends) = <<nFrames'>>
      /\ ~MediaStep => AppendFrames(NewSends) = <<>>
      /\ LET fs == AppendFrames(oaiLog')
         IN \A i, j \in 1..Len(fs) : i < j => fs[i] < fs[j]
    ]_vars

\* two frames were forwarded, the second one after a cancellation
C10_Witness ==
  /\ AppendFrames(oaiLog) = <<1, 2>>
  /\ \E i \in 1..Len(oaiLog) :
        oaiLog[i].type = "response.cancel" /\ oaiLog[i].frame = 2

(* -------------------------------- C11 ---------------------------------- *)
\* C11: a media handler that runs while oaiWS is null (before any start,
\* during the handshake, after the handshake failed) sends nothing on either
\* socket and leaves pendingSamples16k, responseActive, lastCancelTs and
\* ttsQueue as they were; the frame is never forwarded later: every message
\* that carries a media frame is sent by the handler of that very frame,
\* running with oaiWS set.
C11_UnconnectedFrameDropped ==
  [][ /\ (MediaStep /\ oaiWS = NOCHAN)
           => UNCHANGED <<oaiLog, played, pendingSamples16k, responseActive,
                          lastCancelTs, ttsQueue>>
      /\ \A i \in 1..Len(NewSends) :
            NewSends[i].frame # 0
              => MediaStep /\ oaiWS # NOCHAN /\ NewSends[i].frame = nFrames'
    ]_vars

\* the first frame arrived before the agent socket was there, the second one
\* after it, and only the second one was forwarded
C11_Witness ==
  /\ nFrames = 2
  /\ AppendFrames(oaiLog) = <<2>>
  /\ \A i \in 1..Len(oaiLog) : oaiLog[i].frame # 1

(* -------------------------------- C12 ---------------------------------- *)
\* C12: for every byte b, pcm16ToUlaw(ulawToPcm16(b)) = b.  ulawToPcm16
\* removes the bias scaled by the segment (132 << e) and pcm16ToUlaw places
\* the exponent one segment too high, so most bytes come back changed.
C12_ByteRoundTrip ==
  (codec.kind = "byte" /\ codec.stage = "done") => codec.out = codec.in

(* -------------------------------- C13 ---------------------------------- *)
\* the exponent field of a companded byte, the inversion undone
ExponentOf(b) == ((255 - b) \div 16) % 8

\* C13: for every sample x with |x| <= 32635, ulawToPcm16(pcm16ToUlaw(x))
\* differs from x by at most 2^(e+3), e the exponent field of pcm16ToUlaw(x).
C13_QuantizationBound ==
  (codec.kind = "sample" /\ codec.stage = "done")
    => LET d == codec.out - codec.in
           step == 2^(ExponentOf(codec.mid) + 3)
       IN d <= step /\ 0 - d <= step

(* -------------------------------- C14 ---------------------------------- *)
\* C14: for every sample sequence s of even length >= 2,
\* pcm16kTo8k(pcm8kTo16k(s)) has the length of s and the elements of s.
C14_ResampleRoundTrip ==
  (codec.kind = "frame" /\ codec.stage = "done"
     /\ Len(codec.in) >= 2 /\ Len(codec.in) % 2 = 0)
    => /\ Len(codec.out) = Len(codec.in)
       /\ \A i \in 1..Len(codec.in) : codec.out[i] = codec.in[i]

\* a sequence of four samples with both extremes, whose upsampled form holds
\* means that are none of its samples, has made the round trip
C14_Witness ==
  /\ codec.kind = "frame" /\ codec.stage = "done"
  /\ codec.in = <<-32768, 32767, 1, -1>>
  /\ codec.mid = <<-32768, -1, 32767, 16384, 1, 0, -1, -1>>

(* -------------------------------- C15 ---------------------------------- *)
\* the two audio-delta variants, each with its own non-empty payload field
AudioDelta(m) ==
  \/ m.type = "response.output_audio.delta" /\ m.audio
  \/ m.type = "output_audio_buffer.delta" /\ m.delta

\* the agent events that are such deltas
AudioDeltas == {m \in AgentMsgs : AudioDelta(m)}

\* C15: the handler of an agent event appends exactly one chunk to ttsQueue
\* when the event is an audio delta of either variant with its payload field
\* non-empty, and leaves ttsQueue as it is for every other event (a delta with
\* an empty payload, response.created, response.done, error, other types).
\* (A step either does to the queue what is said of an event, or it is not
\* the handler of that event on any agent socket.)
C15_DeltasEnqueueOne ==
  [][ /\ \/ /\ Len(ttsQueue') = Len(ttsQueue) + 1
            /\ SubSeq(ttsQueue', 1, Len(ttsQueue)) = ttsQueue
         \/ \A c \in Created, m \in AudioDeltas : ~AgentMessage(c, m)
      /\ \/ ttsQueue' = ttsQueue
         \/ \A c \in Created, m \in AgentMsgs \ AudioDeltas :
              ~AgentMessage(c, m)
    ]_vars

\* two deltas were enqueued while a response was active
C15_Witness == Len(ttsQueue) = 2 /\ nDeltas = 2 /\ responseActive

(* -------------------------------- C16 ---------------------------------- *)
\* C16: the handler of a message that is not valid JSON, on the caller
\* socket or on an agent socket, sends nothing, leaves streamSid, oaiWS,
\* ttsQueue, responseActive, lastCancelTs and pendingSamples16k as they were,
\* and leaves both sockets and the pacer timer as they were, so that the
\* handlers that could run before it can run after it.
C16_MalformedDiscarded ==
  [][ (TwilioBadJson \/ \E c \in Chans : AgentBadJson(c))
        => /\ UNCHANGED <<oaiLog, played>>
           /\ UNCHANGED <<streamSid, oaiWS, ttsQueue, responseActive,
                          lastCancelTs, pendingSamples16k>>
           /\ UNCHANGED <<twilio, chans, timerActive>>
    ]_vars

\* a session in full swing, where a malformed message can arrive on either
\* socket: samples pending, a response active after a cancellation, a chunk
\* queued
C16_Witness ==
  /\ ENABLED TwilioBadJson
  /\ \E c \in Chans : ENABLED AgentBadJson(c)
  /\ streamSid # NULL /\ oaiWS # NOCHAN
  /\ pendingSamples16k > 0 /\ lastCancelTs > 0
  /\ responseActive /\ ttsQueue # <<>>

(* -------------------------------- C17 ---------------------------------- *)
\* C17: no response.create is sent while a response requested earlier, the
\* greeting included, is outstanding.  As long as no response.done has been
\* handled and no response.cancel has been sent, every response requested is
\* still outstanding, so at most one response.create has been sent.  The
\* greeting is sent without setting responseActive, so the first commit
\* requests a second response next to it.
C17_NoOverlappingCreate ==
  (~doneSeen /\ OfType(oaiLog, "response.cancel") = <<>>)
    => Len(OfType(oaiLog, "response.create")) <= 1

(* -------------------------------- C18 ---------------------------------- *)
\* C18: response.cancel is sent only by a media handler entered with
\* responseActive true and oaiWS set.  A media handler entered with oaiWS set
\* cancels exactly when responseActive is true and more than 250 ms have
\* passed since lastCancelTs; the cancel is then its first send, directly
\* followed by the frame's append, it carries the current time, lastCancelTs
\* becomes that time and responseActive is false from there on unless the
\* same handler requests a response at its commit.  Otherwise the handler
\* sends no cancel, leaves lastCancelTs as it was and leaves responseActive
\* as it was unless it requests a response at its commit.
C18_CancelOnBargeIn ==
  [][ /\ SendsNow("response.cancel") > 0
           => MediaStep /\ responseActive /\ oaiWS # NOCHAN
      /\ \A len \in FrameLens, g \in ClockGaps :
           (TwilioMedia(len, g) /\ oaiWS # NOCHAN)
             => LET now == DateNow(g)
                    created == SendsNow("response.create") = 1
                IN IF responseActive /\ now - lastCancelTs > DEBOUNCE_MS
                     THEN /\ SendsNow("response.cancel") = 1
                          /\ NewSends[1].type = "response.cancel"
                          /\ NewSends[1].at = now
                          /\ NewSends[2].type = "input_audio_buffer.append"
                          /\ lastCancelTs' = now
                          /\ responseActive' = created
                     ELSE /\ SendsNow("response.cancel") = 0
                          /\ lastCancelTs' = lastCancelTs
                          /\ responseActive' = (responseActive \/ created)
    ]_vars

\* the first frame cancelled the greeting and requested a response; no
\* response.done came, so the second frame found responseActive true, within
\* the debounce window, and was appended without a cancel
C18_Witness ==
  /\ ~doneSeen
  /\ AppendFrames(oaiLog) = <<1, 2>>
  /\ Len(OfType(oaiLog, "response.cancel")) = 1
  /\ \E i \in 1..Len(oaiLog) :
        /\ oaiLog[i].type = "response.cancel" /\ oaiLog[i].frame = 1
        /\ oaiLog[i].at = lastCancelTs
  /\ \E i \in 1..Len(oaiLog) :
        oaiLog[i].type = "response.create" /\ oaiLog[i].frame = 1

C19_OneAgentChannel ==
  /\ \A c, d \in Created : (chans[c] = "open" /\ chans[d] = "open") => c = d
  /\ \A c \in Chans, m \in AgentMsgs :
        (Enqueues(m) /\ ENABLED AgentMessage(c, m)) => c = oaiWS
====
